---- MODULE Spec2Model ----
(***************************************************************************)
(* Pressure-volume loop simulator (src/src/PVLoop.jsx): the hemodynamic    *)
(* state engine (computeState, computePinned), the loop geometry generator *)
(* (makeLoop) and the PVLoop component's state machine (pickSc, slide,     *)
(* teaching steps).                                                        *)
(*                                                                         *)
(* Numbers.  A JavaScript Number is modelled as a decimal fixed-point      *)
(* value: the integer n stands for n / Scale, and every multiplication,    *)
(* division, Math.exp and Math.log rounds its result to the nearest        *)
(* multiple of 1 / Scale (a double rounds to the nearest multiple of its   *)
(* ulp instead).  Sums, differences, comparisons, Math.min and Math.max    *)
(* are exact.                                                              *)
(***************************************************************************)
EXTENDS Integers, Sequences, FiniteSets

\* One unit in fixed point: n stands for n / Scale.
Scale == 10^5

\* The decimal literal n / d (d a power of ten), e.g. Dec(25, 10) is 2.5.
Dec(n, d) == (n * Scale) \div d

Abs(x) == IF x < 0 THEN -x ELSE x

Min(a, b) == IF a < b THEN a ELSE b

Max(a, b) == IF a > b THEN a ELSE b

\* a * b for a, b >= 0, rounded to the nearest 1 / Scale.  The product is
\* assembled from parts that each fit a 32-bit integer.
MulU(a, b) ==
  LET qa == a \div Scale
      ra == a % Scale
      qb == b \div Scale
      rb == b % Scale
      h  == rb \div 1000
      l  == rb % 1000
  IN  qa * b + ra * qb + ((ra * h + ((ra * l + 50000) \div 1000)) \div 100)

\* The JavaScript product a * b.
Mul(a, b) ==
  IF (a < 0) = (b < 0) THEN MulU(Abs(a), Abs(b)) ELSE -MulU(Abs(a), Abs(b))

\* Long division: the quotient of (r * 10^n) by b added to q * 10^n, with
\* the last remainder rounding the result to nearest.
RECURSIVE LongDiv(_, _, _, _)
LongDiv(q, r, b, n) ==
  IF n = 0
  THEN IF 2 * r >= b THEN q + 1 ELSE q
  ELSE LongDiv(q * 10 + ((r * 10) \div b), (r * 10) % b, b, n - 1)

\* a / b for a >= 0, b > 0, rounded to the nearest 1 / Scale.
DivU(a, b) == LongDiv(a \div b, a % b, b, 5)

\* The JavaScript quotient a / b (b # 0).
Div(a, b) ==
  IF (a < 0) = (b < 0) THEN DivU(Abs(a), Abs(b)) ELSE -DivU(Abs(a), Abs(b))

\* e^k for k = 0..9, rounded to 1 / Scale.
ExpInt ==
  <<100000, 271828, 738906, 2008554, 5459815, 14841316, 40342879,
    109663316, 298095799, 810308393>>

\* e^(j / 10) for j = 0..9, in units of 10^-8.
ExpTenth ==
  <<100000000, 110517092, 122140276, 134985881, 149182470, 164872127,
    182211880, 201375271, 222554093, 245960311>>

\* t * r / 10^8 for 0 <= t < 3 * 10^8, 0 <= r < 2 * 10^8 (both in units of
\* 10^-8), rounded down.
Mul8(t, r) ==
  LET qt == t \div 10000
      rt == t % 10000
      qr == r \div 10000
      rr == r % 10000
  IN  qt * qr + ((qt * rr + rt * qr + ((rt * rr) \div 10000)) \div 10000)

\* The Taylor series of e^s for 0 <= s < 1 in units of 10^-8: the sum of
\* s^n / n! from term n on, given term n - 1.
RECURSIVE ExpSeries(_, _, _)
ExpSeries(s, n, term) ==
  IF term = 0 \/ n > 16
  THEN 0
  ELSE LET t == Mul8(term, s) \div n
       IN  t + ExpSeries(s, n + 1, t)

\* The largest argument whose exponential is computed: e^9.9 is about
\* 19930, and the largest number the model holds is 2^31 / Scale = 21474.
ExpMax == Dec(99, 10)

\* Math.exp(x) for x >= 0, rounded to the nearest 1 / Scale:
\* e^x = e^k * e^(j / 10) * e^s with k = 0..9, j = 0..9 and 0 <= s < 0.1.
\* Past ExpMax the result is that of ExpMax: the program clamps every
\* pressure it computes from an exponential at 65 or less before using it.
ExpU(y) ==
  LET x  == Min(y, ExpMax)
      k  == x \div Scale
      j  == (x % Scale) \div 10000
      s  == (x % 10000) * 1000
      er == Mul8(ExpTenth[j + 1], 100000000 + ExpSeries(s, 1, 100000000))
      E  == ExpInt[k + 1]
      qE == E \div 10000
      rE == E % 10000
      qr == er \div 10000
      rr == er % 10000
  IN  qE * qr + ((qE * rr + rE * qr + ((rE * rr + 50000000) \div 10000)) \div 10000)

\* Math.exp(x).
Exp(x) == IF x >= 0 THEN ExpU(x) ELSE DivU(Scale, ExpU(-x))

\* The series z + z^3 / 3 + z^5 / 5 + ... from the term after `power'
\* (an odd power of z, exponent n - 2) on, in units of 10^-8; z2 is z^2.
RECURSIVE AtanhSeries(_, _, _)
AtanhSeries(z2, n, power) ==
  LET q == Mul8(power, z2)
  IN  IF q = 0 \/ n > 41 THEN 0 ELSE (q \div n) + AtanhSeries(z2, n + 2, q)

\* The largest k in 0..9 with e^k <= y.
RECURSIVE LnInt(_, _)
LnInt(y, k) == IF k < 9 /\ ExpInt[k + 2] <= y THEN LnInt(y, k + 1) ELSE k

\* Math.log(y) for 1 <= y, rounded to the nearest 1 / Scale:
\* ln y = k + ln m with m = y / e^k in [1, e), and
\* ln m = 2 atanh((m - 1) / (m + 1)).
Ln(y) ==
  LET k  == LnInt(y, 0)
      E  == ExpInt[k + 1]
      big == E > 2 * 10^8
      yy == IF big THEN y \div 10 ELSE y
      EE == IF big THEN E \div 10 ELSE E
      m  == LongDiv(yy \div EE, yy % EE, EE, 8)
      hi == (m + 10^8) \div 2
      lo == (m - 10^8) \div 2
      z  == LongDiv(lo \div hi, lo % hi, hi, 8)
      s  == z + AtanhSeries(Mul8(z, z), 3, z)
  IN  (k * 10^8 + 2 * s + 500) \div 1000

\* Math.sin(f * Math.PI) for f = i / 20, i = 0..20 (the only arguments
\* makeLoop passes), rounded to 1 / Scale; indexed by i + 1.
SinPi20 ==
  <<0, 15643, 30902, 45399, 58779, 70711, 80902, 89101, 95106, 98769, 100000,
    98769, 95106, 89101, 80902, 70711, 58779, 45399, 30902, 15643, 0>>

\* ------------------------------------------------------------ constants
V0 == 10 * Scale

A_ED == Dec(5, 10)

REF_ALPHA == Dec(2, 100)

\* ------------------------------------------------------------ the solver
edpvr(V, alpha) == Mul(A_ED, Exp(Mul(alpha, V)) - Scale)

espvr(V, Ees) == Mul(Ees, V - V0)

\* computeState with SV = ESV - EDV: the difference taken the wrong way round.
computeStateSwappedSV(Ees, EDV, Ea, alpha) ==
  LET ESV == Div(Mul(Ea, EDV) + Mul(Ees, V0), Ees + Ea)
      SV  == ESV - EDV
  IN  [EDV |-> EDV, ESV |-> ESV, ESP |-> Mul(Ees, ESV - V0), SV |-> SV,
       EF |-> Mul(Div(SV, EDV), 100 * Scale),
       LVEDP |-> Mul(A_ED, Exp(Mul(alpha, EDV)) - Scale),
       esvP0 |-> Mul(A_ED, Exp(Mul(alpha, ESV)) - Scale)]

\* computeState with the two elastances swapped in the numerator of ESV.
computeStateSwappedElastance(Ees, EDV, Ea, alpha) ==
  LET ESV == Div(Mul(Ees, EDV) + Mul(Ea, V0), Ees + Ea)
      SV  == EDV - ESV
  IN  [EDV |-> EDV, ESV |-> ESV, ESP |-> Mul(Ees, ESV - V0), SV |-> SV,
       EF |-> Mul(Div(SV, EDV), 100 * Scale),
       LVEDP |-> Mul(A_ED, Exp(Mul(alpha, EDV)) - Scale),
       esvP0 |-> Mul(A_ED, Exp(Mul(alpha, ESV)) - Scale)]

\* computeState with EF left as the fraction SV / EDV, not a percentage.
computeStateFractionEF(Ees, EDV, Ea, alpha) ==
  LET ESV == Div(Mul(Ea, EDV) + Mul(Ees, V0), Ees + Ea)
      SV  == EDV - ESV
  IN  [EDV |-> EDV, ESV |-> ESV, ESP |-> Mul(Ees, ESV - V0), SV |-> SV,
       EF |-> Div(SV, EDV),
       LVEDP |-> Mul(A_ED, Exp(Mul(alpha, EDV)) - Scale),
       esvP0 |-> Mul(A_ED, Exp(Mul(alpha, ESV)) - Scale)]

computeState(Ees, EDV, Ea, alpha) ==
  LET ESV   == Div(Mul(Ea, EDV) + Mul(Ees, V0), Ees + Ea)
      ESP   == Mul(Ees, ESV - V0)
      SV    == EDV - ESV
      EF    == Mul(Div(SV, EDV), 100 * Scale)
      LVEDP == Mul(A_ED, Exp(Mul(alpha, EDV)) - Scale)
      esvP0 == Mul(A_ED, Exp(Mul(alpha, ESV)) - Scale)
  IN  [EDV |-> EDV, ESV |-> ESV, ESP |-> ESP, SV |-> SV, EF |-> EF,
       LVEDP |-> LVEDP, esvP0 |-> esvP0]

\* The EDPVR inverse of refLVEDP under alpha: the first argument of the
\* Math.min in computePinned.
edvCap(alpha, refLVEDP) == Div(Ln(Div(refLVEDP, A_ED) + Scale), alpha)

\* computePinned without the cap of ESV at EDV - 1.
computePinnedUncapped(Ees, sliderEDV, alpha, refESP, refLVEDP) ==
  LET EDV == Max(50 * Scale, Min(edvCap(alpha, refLVEDP), sliderEDV))
      ESV == Div(refESP, Ees) + V0
      SV  == EDV - ESV
  IN  [EDV |-> EDV, ESV |-> ESV, ESP |-> refESP, SV |-> SV,
       EF |-> Mul(Div(SV, EDV), 100 * Scale),
       LVEDP |-> Mul(A_ED, Exp(Mul(alpha, EDV)) - Scale),
       esvP0 |-> Mul(A_ED, Exp(Mul(alpha, ESV)) - Scale)]

\* computePinned with the floor of 50 applied before the cap, not after.
computePinnedFloorFirst(Ees, sliderEDV, alpha, refESP, refLVEDP) ==
  LET EDV == Min(edvCap(alpha, refLVEDP), Max(50 * Scale, sliderEDV))
      ESV == Min(Div(refESP, Ees) + V0, EDV - Scale)
      SV  == EDV - ESV
  IN  [EDV |-> EDV, ESV |-> ESV, ESP |-> refESP, SV |-> SV,
       EF |-> Mul(Div(SV, EDV), 100 * Scale),
       LVEDP |-> Mul(A_ED, Exp(Mul(alpha, EDV)) - Scale),
       esvP0 |-> Mul(A_ED, Exp(Mul(alpha, ESV)) - Scale)]

\* computePinned with ESV capped at EDV itself.
computePinnedCapAtEDV(Ees, sliderEDV, alpha, refESP, refLVEDP) ==
  LET EDV   == Max(50 * Scale, Min(edvCap(alpha, refLVEDP), sliderEDV))
      ESV   == Min(Div(refESP, Ees) + V0, EDV)
      ESP   == refESP
      SV    == EDV - ESV
      EF    == Mul(Div(SV, EDV), 100 * Scale)
      LVEDP == Mul(A_ED, Exp(Mul(alpha, EDV)) - Scale)
      esvP0 == Mul(A_ED, Exp(Mul(alpha, ESV)) - Scale)
  IN  [EDV |-> EDV, ESV |-> ESV, ESP |-> ESP, SV |-> SV, EF |-> EF,
       LVEDP |-> LVEDP, esvP0 |-> esvP0]

\* computePinned with ESP recomputed from the ESPVR at the (capped) ESV.
computePinnedRecomputedESP(Ees, sliderEDV, alpha, refESP, refLVEDP) ==
  LET EDV == Max(50 * Scale, Min(edvCap(alpha, refLVEDP), sliderEDV))
      ESV == Min(Div(refESP, Ees) + V0, EDV - Scale)
      SV  == EDV - ESV
  IN  [EDV |-> EDV, ESV |-> ESV, ESP |-> Mul(Ees, ESV - V0), SV |-> SV,
       EF |-> Mul(Div(SV, EDV), 100 * Scale),
       LVEDP |-> Mul(A_ED, Exp(Mul(alpha, EDV)) - Scale),
       esvP0 |-> Mul(A_ED, Exp(Mul(alpha, ESV)) - Scale)]

computePinned(Ees, sliderEDV, alpha, refESP, refLVEDP) ==
  LET EDV   == Max(50 * Scale, Min(edvCap(alpha, refLVEDP), sliderEDV))
      ESV   == Min(Div(refESP, Ees) + V0, EDV - Scale)
      ESP   == refESP
      SV    == EDV - ESV
      EF    == Mul(Div(SV, EDV), 100 * Scale)
      LVEDP == Mul(A_ED, Exp(Mul(alpha, EDV)) - Scale)
      esvP0 == Mul(A_ED, Exp(Mul(alpha, ESV)) - Scale)
  IN  [EDV |-> EDV, ESV |-> ESV, ESP |-> ESP, SV |-> SV, EF |-> EF,
       LVEDP |-> LVEDP, esvP0 |-> esvP0]

\* ------------------------------------------------------------ scenarios
\* The numeric fields of SC and the number of teaching steps of each entry.
SC ==
  [normal     |-> [Ees |-> Dec(25, 10), EDV |-> 120 * Scale, Ea |-> Dec(20, 10),
                   alpha |-> Dec(20, 1000), nSteps |-> 4],
   hfref      |-> [Ees |-> Dec(10, 10), EDV |-> 180 * Scale, Ea |-> Dec(22, 10),
                   alpha |-> Dec(20, 1000), nSteps |-> 4],
   hfpef      |-> [Ees |-> Dec(30, 10), EDV |-> 105 * Scale, Ea |-> Dec(22, 10),
                   alpha |-> Dec(35, 1000), nSteps |-> 4],
   as         |-> [Ees |-> Dec(30, 10), EDV |-> 130 * Scale, Ea |-> Dec(35, 10),
                   alpha |-> Dec(20, 1000), nSteps |-> 4],
   ar         |-> [Ees |-> Dec(25, 10), EDV |-> 180 * Scale, Ea |-> Dec(15, 10),
                   alpha |-> Dec(18, 1000), nSteps |-> 4],
   ms         |-> [Ees |-> Dec(25, 10), EDV |-> 90 * Scale, Ea |-> Dec(20, 10),
                   alpha |-> Dec(20, 1000), nSteps |-> 4],
   mr         |-> [Ees |-> Dec(25, 10), EDV |-> 160 * Scale, Ea |-> Dec(12, 10),
                   alpha |-> Dec(20, 1000), nSteps |-> 4],
   hemorrhage |-> [Ees |-> Dec(28, 10), EDV |-> 85 * Scale, Ea |-> Dec(25, 10),
                   alpha |-> Dec(20, 1000), nSteps |-> 4],
   fluid      |-> [Ees |-> Dec(25, 10), EDV |-> 150 * Scale, Ea |-> Dec(20, 10),
                   alpha |-> Dec(20, 1000), nSteps |-> 4],
   inotrope   |-> [Ees |-> Dec(40, 10), EDV |-> 120 * Scale, Ea |-> Dec(20, 10),
                   alpha |-> Dec(20, 1000), nSteps |-> 4]]

NORM == SC.normal

\* The scenario buttons, in the order the component lays them out.
groups ==
  <<"normal", "hfref", "hfpef", "as", "ar", "ms", "mr", "hemorrhage", "fluid",
    "inotrope">>

\* The value the module computes once for normSt.
baseline == computeState(NORM.Ees, NORM.EDV, NORM.Ea, NORM.alpha)

\* ------------------------------------------------------------ geometry
W == 540

H == 420

PD == [t |-> 22, r |-> 22, b |-> 52, l |-> 56]

GW == W - PD.l - PD.r

GH == H - PD.t - PD.b

VMAX == 220

PMAX == 240

vX(v) == PD.l * Scale + Mul(Div(v, VMAX * Scale), GW * Scale)

pY(p) ==
  PD.t * Scale + GH * Scale
    - Mul(Div(Max(0, Min(p, PMAX * Scale)), PMAX * Scale), GH * Scale)

\* Number.prototype.toFixed(1) of a value >= 0: the number of tenths
\* nearest to it (the text is that number with a point before its last
\* digit).
toFixed1(a) == (a + (Scale \div 20)) \div (Scale \div 10)

\* makeLoopPts with the ejection phase sampled from ESV up to EDV.
makeLoopPtsEjectionReversed(st, Ees, alpha) ==
  LET EDV == st.EDV
      ESV == st.ESV
      ESP == st.ESP
      a == [i \in 1..21 |->
              LET v == ESV + Mul(EDV - ESV, Div((i - 1) * Scale, 20 * Scale))
              IN  <<v, Min(edpvr(v, alpha), 60 * Scale)>>]
      b == [i \in 1..13 |->
              LET f == Div((i - 1) * Scale, 12 * Scale)
                  p0 == Min(st.LVEDP, 60 * Scale)
              IN  <<EDV, p0 + Mul(ESP - p0, f)>>]
      c == [i \in 1..21 |->
              LET f == Div((i - 1) * Scale, 20 * Scale)
                  v == ESV + Mul(EDV - ESV, f)
                  bow == Mul(8 * Scale, SinPi20[i])
                  p == Min(ESP + bow, espvr(v, Ees) + 5 * Scale)
              IN  <<v, Max(p, ESP - 15 * Scale)>>]
      d == [i \in 1..13 |->
              LET f == Div((i - 1) * Scale, 12 * Scale)
              IN  <<ESV, ESP - Mul(ESP - Min(st.esvP0, 30 * Scale), f)>>]
  IN  a \o b \o c \o d

\* The pts array of makeLoop as it stands before it is formatted: 68 pairs
\* <<volume, pressure>>.
makeLoopPts(st, Ees, alpha) ==
  LET EDV == st.EDV
      ESV == st.ESV
      ESP == st.ESP
      LVEDP == st.LVEDP
      esvP0 == st.esvP0
      \* Phase a: diastolic filling along EDPVR
      a == [i \in 1..21 |->
              LET v == ESV + Mul(EDV - ESV, Div((i - 1) * Scale, 20 * Scale))
                  p == edpvr(v, alpha)
              IN  <<v, Min(p, 60 * Scale)>>]
      \* Phase b: isovolumetric contraction
      b == [i \in 1..13 |->
              LET f == Div((i - 1) * Scale, 12 * Scale)
                  p == Min(LVEDP, 60 * Scale)
                         + Mul(ESP - Min(LVEDP, 60 * Scale), f)
              IN  <<EDV, p>>]
      \* Phase c: ejection
      c == [i \in 1..21 |->
              LET f == Div((i - 1) * Scale, 20 * Scale)
                  v == EDV - Mul(EDV - ESV, f)
                  straightP == ESP
                  peakBow == 8 * Scale
                  bow == Mul(peakBow, SinPi20[i])
                  espvrAtV == espvr(v, Ees)
                  p == Min(straightP + bow, espvrAtV + 5 * Scale)
              IN  <<v, Max(p, ESP - 15 * Scale)>>]
      \* Phase d: isovolumetric relaxation
      d == [i \in 1..13 |->
              LET f == Div((i - 1) * Scale, 12 * Scale)
                  p == ESP - Mul(ESP - Min(esvP0, 30 * Scale), f)
              IN  <<ESV, p>>]
  IN  a \o b \o c \o d

\* The last line of makeLoop: each point formatted "x,y" with one decimal;
\* a formatted point is modelled as the pair of its two numbers of tenths.
formatPts(pts) ==
  [k \in 1..Len(pts) |-> <<toFixed1(vX(pts[k][1])), toFixed1(pY(pts[k][2]))>>]

makeLoop(st, Ees, alpha) == formatPts(makeLoopPts(st, Ees, alpha))

\* makeCurve's loop started at volume v0: the for loop visits the volumes
\* v0, v0 + 2, ... up to 210 and pushes <<volume, pressure>> for each until
\* the first one at which a break is taken (pressure over PMAX + 10, or
\* over 65 on the edpvr curve).
makeCurveFrom(type, param, v0) ==
  LET last == (210 * Scale - v0) \div (2 * Scale)
      vol(i) == v0 + 2 * i * Scale
      pres(i) == IF type = "espvr" THEN espvr(vol(i), param) ELSE edpvr(vol(i), param)
      breaks == {i \in 0..last :
                   \/ pres(i) > (PMAX + 10) * Scale
                   \/ type = "edpvr" /\ pres(i) > 65 * Scale}
      n == IF breaks = {} THEN last + 1
           ELSE CHOOSE i \in breaks : \A j \in breaks : i <= j
  IN  [i \in 1..n |-> <<vol(i - 1), pres(i - 1)>>]

\* makeCurve sampling both curve types from volume 0.
makeCurvePtsSameStart(type, param) == makeCurveFrom(type, param, 0)

\* The samples of makeCurve before they are formatted, from volume V0
\* (espvr) or 0 (edpvr).
makeCurvePts(type, param) ==
  makeCurveFrom(type, param, IF type = "espvr" THEN V0 ELSE 0)

makeCurve(type, param) == formatPts(makeCurvePts(type, param))

\* ------------------------------------------------------------ bounds
\* pickSc is driven on the first NumScenarios buttons.
NumScenarios == 3

\* slide is driven on the first NumSlideVals of the listed positions of
\* each slider.
NumSlideVals == 2

\* The pure functions are called on the first NumCallVals of the listed
\* values of each argument.
NumCallVals == 3

First(seq, n) == {seq[j] : j \in 1..Min(n, Len(seq))}

\* Positions of the four range inputs, each inside its min..max and on its
\* step.
sliderVals ==
  [Ees   |-> <<Dec(5, 10), Dec(50, 10), Dec(20, 10), Dec(35, 10)>>,
   EDV   |-> <<180 * Scale, 60 * Scale, 100 * Scale, 140 * Scale>>,
   Ea    |-> <<Dec(40, 10), Dec(5, 10), Dec(20, 10), Dec(30, 10)>>,
   alpha |-> <<Dec(40, 1000), Dec(5, 1000), Dec(30, 1000), Dec(10, 1000)>>]

sliderKeys == {"Ees", "EDV", "Ea", "alpha"}

\* ------------------------------------------------------------ state
VARIABLES
  scKey,      \* useState("normal"): the selected scenario
  step,       \* useState(0): the teaching step shown
  sl,         \* useState({...}): the slider values and _eaMoved
  mode,       \* useState("scenario"): "scenario" or "manual"
  pv,         \* the useMemo value pv: the displayed hemodynamic state
  memo,       \* the useMemo values loop, espL, edpL, each held as the
              \* arguments of the call that computed it
  normSt,     \* the module-level baseline state
  eaTouched,  \* history: slide("Ea", v) was called since the last pickSc
  lastKey,    \* history: the control of the latest slide, "none" after pickSc
  eaEarlier,  \* history: sl._eaMoved as the latest pickSc found it
  call,       \* the latest call of a pure function: [fn, in, out]
  prev        \* the call before it

vars ==
  <<scKey, step, sl, mode, pv, memo, normSt, eaTouched, lastKey, eaEarlier, call,
    prev>>

uiVars == <<scKey, step, sl, mode, pv, memo, normSt, eaTouched, lastKey, eaEarlier>>

NoCall == [fn |-> "none"]

\* The value of the pv useMemo callback for the given mode, scenario and
\* slider state.
pvOf(m, k, s) ==
  IF m = "scenario"
  THEN computeState(SC[k].Ees, SC[k].EDV, SC[k].Ea, SC[k].alpha)
  ELSE IF s.eaMoved
       THEN computeState(s.Ees, s.EDV, s.Ea, s.alpha)
       ELSE computePinned(s.Ees, s.EDV, s.alpha, normSt.ESP, normSt.LVEDP)

\* useMemo that never recomputes after the first render.
useMemoStale(changed, cached, fresh) == cached

\* useMemo: the cached value unless a dependency changed.
useMemo(changed, cached, fresh) == IF changed THEN fresh ELSE cached

UIInit ==
  /\ scKey = "normal"
  /\ step = 0
  /\ sl = [Ees |-> Dec(25, 10), EDV |-> 120 * Scale, Ea |-> Dec(20, 10),
           alpha |-> Dec(2, 100), eaMoved |-> FALSE]
  /\ mode = "scenario"
  /\ normSt = baseline
  /\ pv = computeState(SC["normal"].Ees, SC["normal"].EDV, SC["normal"].Ea,
                       SC["normal"].alpha)
  /\ memo = [loop |-> [st |-> baseline, Ees |-> NORM.Ees, alpha |-> NORM.alpha],
             espL |-> [type |-> "espvr", param |-> NORM.Ees],
             edpL |-> [type |-> "edpvr", param |-> NORM.alpha]]
  /\ eaTouched = FALSE
  /\ lastKey = "none"
  /\ eaEarlier = FALSE

Init == UIInit /\ call = NoCall /\ prev = NoCall

\* pm for the given mode, scenario, slider state and displayed state: the
\* parameters the loop and the boundary curves are drawn with.
pmOf(m, k, s, p) ==
  IF m = "scenario"
  THEN [Ees |-> SC[k].Ees, EDV |-> SC[k].EDV, Ea |-> SC[k].Ea, alpha |-> SC[k].alpha]
  ELSE [Ees |-> s.Ees, EDV |-> p.EDV, Ea |-> s.Ea, alpha |-> s.alpha]

pm == pmOf(mode, scKey, sl, pv)

\* The loop, espL and edpL memo cells after a render that displays p with
\* the parameters q: loop depends on [pv, pm.Ees, pm.alpha] (pv is a new
\* object whenever its own memo was recomputed), espL on [pm.Ees], edpL on
\* [pm.alpha].  A cell holds makeLoop(st, Ees, alpha), makeCurve("espvr",
\* Ees), makeCurve("edpvr", alpha) of the arguments recorded in it.
renderMemo(pvRecomputed, p, q) ==
  [loop |-> useMemo(pvRecomputed \/ q.Ees # memo.loop.Ees \/ q.alpha # memo.loop.alpha,
                    memo.loop, [st |-> p, Ees |-> q.Ees, alpha |-> q.alpha]),
   espL |-> useMemo(q.Ees # memo.espL.param, memo.espL,
                    [type |-> "espvr", param |-> q.Ees]),
   edpL |-> useMemo(q.alpha # memo.edpL.param, memo.edpL,
                    [type |-> "edpvr", param |-> q.alpha])]

\* pickSc(k), and the render that follows.
pickSc(k) ==
  /\ scKey' = k
  /\ step' = 0
  /\ mode' = "scenario"
  /\ pv' = useMemo(mode # "scenario" \/ k # scKey, pv, pvOf("scenario", k, sl))
  /\ memo' = renderMemo(mode # "scenario" \/ k # scKey, pv', pmOf("scenario", k, sl, pv'))
  /\ eaTouched' = FALSE
  /\ lastKey' = "none"
  /\ eaEarlier' = sl.eaMoved
  /\ UNCHANGED <<sl, normSt, call, prev>>

\* slide's update with a scenario branch that starts from the stored slider
\* values instead of the scenario's.
slideSlNoSnapshot(k, v) ==
  IF mode = "scenario"
  THEN [[sl EXCEPT !.eaMoved = (k = "Ea")] EXCEPT ![k] = v]
  ELSE [[sl EXCEPT !.eaMoved = IF k = "Ea" THEN TRUE ELSE sl.eaMoved]
          EXCEPT ![k] = v]

\* slide's update with a manual branch that stores k = "Ea" as the flag.
slideSlNotSticky(k, v) ==
  IF mode = "scenario"
  THEN LET snap == SC[scKey]
       IN  [[Ees |-> snap.Ees, EDV |-> snap.EDV, Ea |-> snap.Ea,
             alpha |-> snap.alpha, eaMoved |-> (k = "Ea")] EXCEPT ![k] = v]
  ELSE [[sl EXCEPT !.eaMoved = (k = "Ea")] EXCEPT ![k] = v]

\* slide's update with a scenario branch that keeps the flag already stored.
slideSlStaleFlag(k, v) ==
  IF mode = "scenario"
  THEN LET snap == SC[scKey]
       IN  [[Ees |-> snap.Ees, EDV |-> snap.EDV, Ea |-> snap.Ea,
             alpha |-> snap.alpha, eaMoved |-> (sl.eaMoved \/ k = "Ea")]
              EXCEPT ![k] = v]
  ELSE [[sl EXCEPT !.eaMoved = IF k = "Ea" THEN TRUE ELSE sl.eaMoved]
          EXCEPT ![k] = v]

\* The slider state slide(k, v) sets.
slideSl(k, v) ==
  IF mode = "scenario"
  THEN LET snap == SC[scKey]
       IN  [[Ees |-> snap.Ees, EDV |-> snap.EDV, Ea |-> snap.Ea,
             alpha |-> snap.alpha, eaMoved |-> (k = "Ea")] EXCEPT ![k] = v]
  ELSE [[sl EXCEPT !.eaMoved = IF k = "Ea" THEN TRUE ELSE sl.eaMoved]
          EXCEPT ![k] = v]

\* slide(k, v), and the render that follows (setSl always stores a new
\* object, so pv is recomputed).
slide(k, v) ==
  /\ sl' = slideSl(k, v)
  /\ mode' = "manual"
  /\ pv' = useMemo(TRUE, pv, pvOf("manual", scKey, slideSl(k, v)))
  /\ memo' = renderMemo(TRUE, pv', pmOf("manual", scKey, sl', pv'))
  /\ eaTouched' = (eaTouched \/ k = "Ea")
  /\ lastKey' = k
  /\ UNCHANGED <<scKey, step, normSt, eaEarlier, call, prev>>

\* The Prev button's handler without the clamp at 0.
prevStepUnclamped ==
  /\ mode = "scenario"
  /\ step' = step - 1
  /\ UNCHANGED <<scKey, sl, mode, pv, memo, normSt, eaTouched, lastKey, eaEarlier, call, prev>>

\* The teaching-step controls, rendered in scenario mode only.
prevStep ==
  /\ mode = "scenario"
  /\ step' = Max(0, step - 1)
  /\ UNCHANGED <<scKey, sl, mode, pv, memo, normSt, eaTouched, lastKey, eaEarlier, call, prev>>

nextStep ==
  /\ mode = "scenario"
  /\ step' = Min(SC[scKey].nSteps - 1, step + 1)
  /\ UNCHANGED <<scKey, sl, mode, pv, memo, normSt, eaTouched, lastKey, eaEarlier, call, prev>>

setStep(i) ==
  /\ mode = "scenario"
  /\ step' = i
  /\ UNCHANGED <<scKey, sl, mode, pv, memo, normSt, eaTouched, lastKey, eaEarlier, call, prev>>

Next ==
  \/ \E k \in First(groups, NumScenarios) : pickSc(k)
  \/ \E k \in sliderKeys : \E v \in First(sliderVals[k], NumSlideVals) : slide(k, v)
  \/ prevStep
  \/ nextStep
  \/ \E i \in 0..(SC[scKey].nSteps - 1) : setStep(i)

Spec == Init /\ [][Next]_vars

\* ------------------------------------------------------------ pure calls
\* Arguments the solver functions are called on.  EDV = V0 = 10 lies outside
\* the valid parameters (EDV > V0), sliderEDV = 40 below the floor of 50.
stateArgs ==
  [Ees   |-> <<Dec(5, 10), Dec(50, 10), Dec(25, 10), Dec(10, 10)>>,
   EDV   |-> <<120 * Scale, 11 * Scale, 10 * Scale, 180 * Scale>>,
   Ea    |-> <<Dec(20, 10), Dec(5, 10), Dec(40, 10), Dec(30, 10)>>,
   alpha |-> <<Dec(20, 1000), Dec(40, 1000), Dec(5, 1000), Dec(30, 1000)>>]

pinnedArgs ==
  [Ees       |-> <<Dec(5, 10), Dec(25, 10), Dec(50, 10), Dec(10, 10)>>,
   sliderEDV |-> <<100 * Scale, 180 * Scale, 40 * Scale, 60 * Scale>>,
   alpha     |-> <<Dec(20, 1000), Dec(40, 1000), Dec(5, 1000), Dec(30, 1000)>>,
   refESP    |-> <<baseline.ESP, 60 * Scale, 200 * Scale, 0>>,
   refLVEDP  |-> <<baseline.LVEDP, 2 * Scale, 20 * Scale, 0>>]

\* makeLoop is called as the component calls it: on a state of computeState
\* or of computePinned (against the baseline), with that state's Ees, alpha.
loopArgs ==
  [kind  |-> <<"pinned", "direct">>,
   Ees   |-> sliderVals.Ees,
   EDV   |-> sliderVals.EDV,
   Ea    |-> sliderVals.Ea,
   alpha |-> sliderVals.alpha]

callComputeState(a) ==
  [fn |-> "computeState", in |-> a,
   out |-> computeState(a.Ees, a.EDV, a.Ea, a.alpha)]

callComputePinned(a) ==
  [fn |-> "computePinned", in |-> a,
   out |-> computePinned(a.Ees, a.sliderEDV, a.alpha, a.refESP, a.refLVEDP)]

callMakeLoop(a) ==
  LET st == IF a.kind = "direct"
            THEN computeState(a.Ees, a.EDV, a.Ea, a.alpha)
            ELSE computePinned(a.Ees, a.EDV, a.alpha, baseline.ESP, baseline.LVEDP)
      pts == makeLoopPts(st, a.Ees, a.alpha)
  IN  [fn |-> "makeLoop", in |-> a, st |-> st, pts |-> pts, out |-> formatPts(pts)]

\* computeState(...) on every combination of the listed arguments, then
\* again with one argument changed.
InitDirect ==
  /\ UIInit
  /\ prev = NoCall
  /\ \E e \in First(stateArgs.Ees, NumCallVals), v \in First(stateArgs.EDV, NumCallVals),
        a \in First(stateArgs.Ea, NumCallVals), al \in First(stateArgs.alpha, NumCallVals) :
       call = callComputeState([Ees |-> e, EDV |-> v, Ea |-> a, alpha |-> al])

CallComputeState(k, v) ==
  /\ call.in[k] # v
  /\ call' = callComputeState([call.in EXCEPT ![k] = v])
  /\ prev' = call
  /\ UNCHANGED uiVars

NextDirect ==
  \E k \in DOMAIN stateArgs : \E v \in First(stateArgs[k], NumCallVals) :
    CallComputeState(k, v)

SpecDirect == InitDirect /\ [][NextDirect]_vars

InitPinned ==
  /\ UIInit
  /\ prev = NoCall
  /\ \E e \in First(pinnedArgs.Ees, NumCallVals),
        v \in First(pinnedArgs.sliderEDV, NumCallVals),
        al \in First(pinnedArgs.alpha, NumCallVals),
        p \in First(pinnedArgs.refESP, NumCallVals),
        q \in First(pinnedArgs.refLVEDP, NumCallVals) :
       call = callComputePinned([Ees |-> e, sliderEDV |-> v, alpha |-> al,
                                 refESP |-> p, refLVEDP |-> q])

CallComputePinned(k, v) ==
  /\ call.in[k] # v
  /\ call' = callComputePinned([call.in EXCEPT ![k] = v])
  /\ prev' = call
  /\ UNCHANGED uiVars

NextPinned ==
  \E k \in DOMAIN pinnedArgs : \E v \in First(pinnedArgs[k], NumCallVals) :
    CallComputePinned(k, v)

SpecPinned == InitPinned /\ [][NextPinned]_vars

InitLoop ==
  /\ UIInit
  /\ prev = NoCall
  /\ \E kd \in First(loopArgs.kind, NumCallVals), e \in First(loopArgs.Ees, NumCallVals),
        v \in First(loopArgs.EDV, NumCallVals), a \in First(loopArgs.Ea, NumCallVals),
        al \in First(loopArgs.alpha, NumCallVals) :
       call = callMakeLoop([kind |-> kd, Ees |-> e, EDV |-> v, Ea |-> a, alpha |-> al])

CallMakeLoop(k, v) ==
  /\ call.in[k] # v
  /\ call' = callMakeLoop([call.in EXCEPT ![k] = v])
  /\ prev' = NoCall
  /\ UNCHANGED uiVars

NextLoop ==
  \E k \in DOMAIN loopArgs : \E v \in First(loopArgs[k], NumCallVals) :
    CallMakeLoop(k, v)

SpecLoop == InitLoop /\ [][NextLoop]_vars

\* makeCurve is called on the first NumCurveVals of the listed parameters
\* (contractilities and stiffness coefficients of the slider ranges).
NumCurveVals == 8

curveArgs ==
  [type  |-> <<"espvr", "edpvr">>,
   param |-> <<Dec(5, 10), Dec(20, 1000), Dec(50, 10), Dec(40, 1000), Dec(25, 10),
               Dec(5, 1000), Dec(10, 10), Dec(30, 1000), Dec(30, 10), Dec(10, 1000)>>]

callMakeCurve(a) ==
  LET pts == makeCurvePts(a.type, a.param)
  IN  [fn |-> "makeCurve", in |-> a, pts |-> pts, out |-> formatPts(pts)]

InitCurve ==
  /\ UIInit
  /\ prev = NoCall
  /\ \E t \in First(curveArgs.type, NumCurveVals), q \in First(curveArgs.param, NumCurveVals) :
       call = callMakeCurve([type |-> t, param |-> q])

CallMakeCurve(k, v) ==
  /\ call.in[k] # v
  /\ call' = callMakeCurve([call.in EXCEPT ![k] = v])
  /\ prev' = [fn |-> call.fn, in |-> call.in]
  /\ UNCHANGED uiVars

NextCurve ==
  \E k \in DOMAIN curveArgs : \E v \in First(curveArgs[k], NumCurveVals) :
    CallMakeCurve(k, v)

SpecCurve == InitCurve /\ [][NextCurve]_vars

\* ------------------------------------------------------------ properties
Near(a, b, tol) == Abs(a - b) <= tol

\* The displayed state is the direct solver's, on the slider values.
ShowsDirect == pv = computeState(sl.Ees, sl.EDV, sl.Ea, sl.alpha)

\* The displayed state is the pinned solver's, against the baseline.
ShowsPinned == pv = computePinned(sl.Ees, sl.EDV, sl.alpha, normSt.ESP, normSt.LVEDP)

\* The displayed state is the direct solver's, on the selected scenario.
ShowsScenario ==
  pv = computeState(SC[scKey].Ees, SC[scKey].EDV, SC[scKey].Ea, SC[scKey].alpha)

\* C1: once slide("Ea", v) has been called, every displayed state up to the
\* next pickSc is computeState of the current slider values, whatever
\* controls are slid afterwards; and no step that stays in manual mode turns
\* _eaMoved from true to false.
C1_StickyDecoupling ==
  /\ [](mode = "manual" /\ eaTouched => sl.eaMoved /\ ShowsDirect)
  /\ [][mode = "manual" /\ sl.eaMoved /\ mode' = "manual" => sl'.eaMoved]_vars

\* C1 witness: the Ea slider was moved in this manual session and another
\* control was slid after it.
C1_Witness ==
  mode = "manual" /\ eaTouched /\ lastKey \in {"Ees", "EDV", "alpha"}

\* C2: after pickSc(k) the displayed state is computeState of scenario k;
\* while no slide since that pickSc touched Ea, the displayed state is
\* computePinned's, even if _eaMoved was set when pickSc was called; and a
\* step that leaves the decoupled state (manual, _eaMoved) is a pickSc.
C2_ResetOnReselect ==
  /\ [](mode = "scenario" => ShowsScenario)
  /\ [](mode = "manual" /\ ~eaTouched => ~sl.eaMoved /\ ShowsPinned)
  /\ [][(mode = "manual" /\ sl.eaMoved) /\ ~(mode' = "manual" /\ sl'.eaMoved)
          => mode' = "scenario" /\ lastKey' = "none"]_vars

\* C2 witness: the Ea slider was moved in an earlier manual session, a
\* scenario was then picked, and only other controls were slid since.
C2_Witness == mode = "manual" /\ eaEarlier /\ ~eaTouched

\* C3: for Ees > 0, Ea > 0 and EDV > V0, computeState returns
\* V0 < ESV < EDV and SV = EDV - ESV.
C3_DirectESVBetween ==
  (call.fn = "computeState" /\ call.in.Ees > 0 /\ call.in.Ea > 0 /\ call.in.EDV > V0)
    => /\ V0 < call.out.ESV
       /\ call.out.ESV < call.out.EDV
       /\ call.out.EDV = call.in.EDV
       /\ call.out.SV = call.in.EDV - call.out.ESV

\* C3 witness: computeState has been called again on valid parameters with
\* EDV just above V0.
C3_Witness ==
  /\ call.fn = "computeState" /\ prev.fn = "computeState"
  /\ call.in.EDV = 11 * Scale
  /\ call.out.SV > 0

\* C4: computePinned returns ESV <= EDV - 1 (a stroke volume of at least 1).
C4_PinnedESVCap ==
  call.fn = "computePinned"
    => call.out.ESV <= call.out.EDV - Scale /\ call.out.SV >= Scale

\* C4 witness: a call in which the ESPVR inverse refESP / Ees + V0 lies above
\* EDV - 1, so that the cap decides ESV.
C4_Witness ==
  /\ call.fn = "computePinned" /\ prev.fn = "computePinned"
  /\ Div(call.in.refESP, call.in.Ees) + V0 > call.out.EDV - Scale
  /\ call.out.ESV = call.out.EDV - Scale

\* C5: computePinned returns EDV = max(50, min(sliderEDV, EDV_cap)), where
\* EDV_cap is the volume at which the EDPVR under the current alpha gives
\* refLVEDP (to 0.001); so EDV >= 50, EDV <= max(50, sliderEDV), and
\* EDV = sliderEDV whenever 50 <= sliderEDV <= EDV_cap.
C5_PinnedEDV ==
  call.fn = "computePinned"
    => LET cap == edvCap(call.in.alpha, call.in.refLVEDP)
           slider == call.in.sliderEDV
       IN  /\ Near(edpvr(cap, call.in.alpha), call.in.refLVEDP, Dec(1, 1000))
           /\ call.out.EDV = Max(50 * Scale, Min(slider, cap))
           /\ call.out.EDV >= 50 * Scale
           /\ call.out.EDV <= Max(50 * Scale, slider)
           /\ (50 * Scale <= slider /\ slider <= cap => call.out.EDV = slider)

\* C5 witness: a call whose EDV_cap lies below 50 while the slider lies
\* above it: the floor decides EDV.
C5_Witness ==
  /\ call.fn = "computePinned" /\ prev.fn = "computePinned"
  /\ edvCap(call.in.alpha, call.in.refLVEDP) < 50 * Scale
  /\ call.in.sliderEDV > 50 * Scale
  /\ call.out.EDV = 50 * Scale

\* C6: in manual mode, while the Ea slider has not been moved since the last
\* scenario selection, the displayed ESP is the baseline's; and normSt is
\* the state computed from the normal scenario, whatever has been done.
C6_PinnedESPIsBaseline ==
  /\ (mode = "manual" /\ ~eaTouched => pv.ESP = normSt.ESP)
  /\ normSt = baseline

\* C6 witness: a pinned display snapshotted from another scenario than the
\* normal one, with ESV capped at EDV - 1 (off the ESPVR line).
C6_Witness ==
  /\ mode = "manual" /\ ~eaTouched /\ scKey # "normal"
  /\ pv.ESV = pv.EDV - Scale

\* C7: for alpha > 0 the LVEDP computePinned returns is refLVEDP (to 0.01),
\* whatever sliderEDV is.
C7_PinnedLVEDPIsRef ==
  (call.fn = "computePinned" /\ call.in.alpha > 0)
    => Near(call.out.LVEDP, call.in.refLVEDP, Dec(1, 100))

\* The arguments of the latest two calls differ in argument k alone.
DiffersOnlyIn(k) ==
  /\ prev.fn = call.fn
  /\ \A f \in DOMAIN call.in : f # k => call.in[f] = prev.in[f]

\* C8: with EDV > V0, computeState on a larger Ees alone returns a smaller
\* ESV and a larger EF; on a larger Ea alone, a larger ESV and a smaller SV.
C8_DirectMonotone ==
  (call.fn = "computeState" /\ call.in.EDV > V0)
    => /\ (DiffersOnlyIn("Ees") /\ call.in.Ees > prev.in.Ees)
            => call.out.ESV < prev.out.ESV /\ call.out.EF > prev.out.EF
       /\ (DiffersOnlyIn("Ea") /\ call.in.Ea > prev.in.Ea)
            => call.out.ESV > prev.out.ESV /\ call.out.SV < prev.out.SV

\* C8 witness: two successive calls that differ by a larger Ea alone, after
\* which the stroke volume is smaller.
C8_Witness ==
  /\ call.fn = "computeState" /\ call.in.EDV > V0
  /\ DiffersOnlyIn("Ea") /\ call.in.Ea > prev.in.Ea
  /\ call.out.SV < prev.out.SV

\* The baseline ESV, ESP and SV are 58.89, 122.22 and 61.11 to 0.01, ESV is
\* 265 / 4.5, and the normal scenario displays the baseline.
BaselineVolumes ==
  /\ Near(normSt.ESV, Dec(5889, 100), Dec(1, 100))
  /\ Near(normSt.ESV * 45, 2650 * Scale, 45)
  /\ Near(normSt.ESP, Dec(12222, 100), Dec(1, 100))
  /\ Near(normSt.SV, Dec(6111, 100), Dec(1, 100))
  /\ (mode = "scenario" /\ scKey = "normal" => pv = normSt)

\* C9 as stated: the baseline values, with EF = 50.9 to 0.01.
C9_BaselineAsStated ==
  BaselineVolumes /\ Near(normSt.EF, Dec(509, 10), Dec(1, 100))

\* C9 as amended: the baseline values, with EF = 50.93 to 0.01 (SV / EDV is
\* 0.50926).
C9_Baseline ==
  BaselineVolumes /\ Near(normSt.EF, Dec(5093, 100), Dec(1, 100))

\* C9 witness: the normal scenario picked again after a manual session.
C9_Witness ==
  /\ mode = "scenario" /\ scKey = "normal" /\ lastKey = "none"
  /\ sl.Ees # NORM.Ees

\* C10: makeLoop emits 68 samples: 21 of filling from volume ESV to volume
\* EDV, 13 of contraction all at volume EDV, 21 of ejection from volume EDV
\* to volume ESV, 13 of relaxation all at volume ESV.
C10_LoopPhases ==
  call.fn = "makeLoop"
    => /\ Len(call.pts) = 68 /\ Len(call.out) = 68
       /\ call.pts[1][1] = call.st.ESV /\ call.pts[21][1] = call.st.EDV
       /\ \A i \in 22..34 : call.pts[i][1] = call.st.EDV
       /\ call.pts[35][1] = call.st.EDV /\ call.pts[55][1] = call.st.ESV
       /\ \A i \in 35..54 : call.pts[i][1] >= call.pts[i + 1][1]
       /\ \A i \in 1..20 : call.pts[i][1] <= call.pts[i + 1][1]
       /\ \A i \in 56..68 : call.pts[i][1] = call.st.ESV

\* C10 witness: a loop made for a pinned state whose ESV is capped at
\* EDV - 1.
C10_Witness ==
  /\ call.fn = "makeLoop" /\ call.in.kind = "pinned"
  /\ call.st.ESV = call.st.EDV - Scale
  /\ Len(call.pts) = 68

\* C11: in every loop made for a state the UI can display, direct or pinned,
\* each ejection sample (v, p) has p <= Ees * (v - V0) + 5 and p >= ESP - 15.
C11_EjectionClamps ==
  call.fn = "makeLoop"
    => \A i \in 35..55 :
         /\ call.pts[i][2] <= espvr(call.pts[i][1], call.in.Ees) + 5 * Scale
         /\ call.pts[i][2] >= call.st.ESP - 15 * Scale

\* The pressure the curve of the given type has at volume v.
curveAt(type, param, v) ==
  IF type = "espvr" THEN espvr(v, param) ELSE edpvr(v, param)

\* C12: the samples of makeCurve lie on the grid start, start + 2, ... with
\* start = V0 for "espvr" and 0 for "edpvr", none beyond volume 210; no
\* "espvr" sample has pressure over PMAX + 10 = 250 and no "edpvr" sample has
\* pressure over 65; and for a positive parameter the samples are exactly
\* the grid points before the first one whose pressure is over the cap.
C12_CurveWindow ==
  call.fn = "makeCurve"
    => LET type == call.in.type
           param == call.in.param
           start == IF type = "espvr" THEN V0 ELSE 0
           cap == IF type = "espvr" THEN (PMAX + 10) * Scale ELSE 65 * Scale
           n == Len(call.pts)
           last == (210 * Scale - start) \div (2 * Scale)
       IN  /\ Len(call.out) = n
           /\ \A i \in 1..n :
                /\ call.pts[i][1] = start + 2 * (i - 1) * Scale
                /\ call.pts[i][1] >= start /\ call.pts[i][1] <= 210 * Scale
                /\ call.pts[i][2] = curveAt(type, param, call.pts[i][1])
                /\ call.pts[i][2] <= cap
           /\ n <= last + 1
           /\ (param > 0 /\ n <= last)
                => curveAt(type, param, start + 2 * n * Scale) > cap

\* C12 witness: an "edpvr" curve cut short by the cap of 65, made after
\* another curve.
C12_Witness ==
  /\ call.fn = "makeCurve" /\ prev.fn = "makeCurve"
  /\ call.in.type = "edpvr"
  /\ Len(call.pts) > 1 /\ Len(call.pts) < 106

\* C13: in manual mode, while the Ea slider has not been moved since the
\* last scenario selection, the Ea held in the slider state is 2.0.
C13_ManualEaIsTwo ==
  (mode = "manual" /\ ~eaTouched) => sl.Ea = Dec(20, 10)

\* C14: in manual mode with the Ea slider untouched, a slide that raises the
\* EDV slider alone strictly raises the displayed EDV and SV and leaves the
\* displayed ESV unchanged.
C14_PreloadAlone ==
  [][(/\ mode = "manual" /\ mode' = "manual"
      /\ ~eaTouched' /\ lastKey' = "EDV"
      /\ sl' = [sl EXCEPT !.EDV = sl'.EDV]
      /\ sl'.EDV > sl.EDV)
       => (pv'.EDV > pv.EDV /\ pv'.SV > pv.SV /\ pv'.ESV = pv.ESV)]_vars

\* C15: the samples makeLoop emits form a closed path of contiguous phases:
\* the last sample of each phase is the first of the next, and the last of
\* relaxation is the first of filling.
C15_LoopClosed ==
  call.fn = "makeLoop"
    => /\ call.out[21] = call.out[22]
       /\ call.out[34] = call.out[35]
       /\ call.out[55] = call.out[56]
       /\ call.out[68] = call.out[1]

\* C16: in every state displayed, the end-systolic corner lies on the ESPVR
\* line drawn: ESP = Ees * (ESV - V0) for the Ees of pm (to 0.01).
C16_CornerOnESPVR ==
  Near(pv.ESP, espvr(pv.ESV, pm.Ees), Dec(1, 100))

\* C17: a slide(k, v) made in scenario mode leaves a slider state with v
\* under k, the selected scenario's values under the other three controls
\* and _eaMoved = (k = "Ea"), whatever the slider state held before; pickSc
\* (and the step controls) leave the slider state unchanged, and slide never
\* changes scKey or step.
C17_SnapshotOnLeave ==
  [][/\ (mode = "scenario" /\ mode' = "manual")
          => \E k \in sliderKeys :
               /\ lastKey' = k
               /\ sl'[k] \in First(sliderVals[k], NumSlideVals)
               /\ \A f \in sliderKeys \ {k} : sl'[f] = SC[scKey][f]
               /\ sl'.eaMoved = (k = "Ea")
     /\ (mode' = "scenario" => sl' = sl)
     /\ (mode' = "manual" => scKey' = scKey /\ step' = step)]_vars

\* C17 witness: the state right after a slide of Ees that left scenario
\* mode at a later teaching step, the slider state before it left over
\* from an earlier manual session in which Ea was moved.
C17_Witness ==
  /\ mode = "manual" /\ lastKey = "Ees" /\ eaEarlier
  /\ ~sl.eaMoved
  /\ \A f \in sliderKeys \ {"Ees"} : sl[f] = SC[scKey][f]
  /\ step > 0

\* C19: the teaching step is always an index of the selected scenario's
\* steps, 0 <= step <= nSteps - 1; a pickSc sets it to 0 and a slide leaves
\* it unchanged.
C19_StepInRange ==
  /\ [](step >= 0 /\ step <= SC[scKey].nSteps - 1)
  /\ [][/\ (scKey' # scKey \/ (mode = "manual" /\ mode' = "scenario")) => step' = 0
        /\ (mode' = "manual" => step' = step)]_vars

\* C19 witness: manual mode entered from the last teaching step.
C19_Witness ==
  mode = "manual" /\ step = SC[scKey].nSteps - 1 /\ lastKey # "none"

\* The state scenario mode displays for each library scenario.
scenarioState ==
  [k \in DOMAIN SC |-> computeState(SC[k].Ees, SC[k].EDV, SC[k].Ea, SC[k].alpha)]

\* A hemodynamic state is non-degenerate.
NonDegenerate(st) ==
  /\ V0 <= st.ESV /\ st.ESV < st.EDV
  /\ st.SV = st.EDV - st.ESV /\ st.SV > 0
  /\ st.EF = Mul(Div(st.SV, st.EDV), 100 * Scale)
  /\ st.EF > 0 /\ st.EF <= 100 * Scale
  /\ st.ESP >= 0

\* C20: every state displayed after pickSc and slide with values of the
\* slider ranges is non-degenerate: V0 <= ESV < EDV, SV = EDV - ESV > 0,
\* EF = 100 * SV / EDV in (0, 100], ESP >= 0; so is the state of each of the
\* ten library scenarios.
C20_NonDegenerate ==
  /\ NonDegenerate(pv)
  /\ \A k \in DOMAIN SC : NonDegenerate(scenarioState[k])

\* C20 witness: a pinned display at the smallest contractility, the state
\* nearest to a degenerate one (SV = 1).
C20_Witness ==
  /\ mode = "manual" /\ ~sl.eaMoved /\ sl.Ees = Dec(5, 10)
  /\ pv.SV = Scale

\* C18: in every state the memoized pv is what the pv callback computes
\* afresh from the current mode, scenario and slider state (so two runs
\* ending in the same mode, scenario and slider state display the same
\* state), the memoized loop and curves are those of the current pv and pm,
\* and a step that changes the teaching step alone changes none of them.
C18_MemoTransparent ==
  /\ [](pv = pvOf(mode, scKey, sl))
  /\ [](/\ memo.loop = [st |-> pvOf(mode, scKey, sl), Ees |-> pm.Ees, alpha |-> pm.alpha]
        /\ memo.espL = [type |-> "espvr", param |-> pm.Ees]
        /\ memo.edpL = [type |-> "edpvr", param |-> pm.alpha])
  /\ [][(mode' = mode /\ scKey' = scKey /\ sl' = sl) => (pv' = pv /\ memo' = memo)]_vars

\* C18 witness: a manual state reached by a slide of EDV from a later
\* teaching step, displaying an EDV other than the slider's: pv and the
\* loop were recomputed, the curves were kept.
C18_Witness ==
  /\ mode = "manual" /\ lastKey = "EDV" /\ step > 0
  /\ pv.EDV # sl.EDV
  /\ memo.loop.st = pv
====
